---- MODULE Spec2Model ----
(***************************************************************************)
(* Model of node-printer-driver: the cross-platform facade (src/index.ts), *)
(* the CUPS implementation (src/unix-printer.ts) and the Windows spooler   *)
(* implementation (src/pdf-printer.ts).                                    *)
(*                                                                         *)
(* Strings are sequences of pieces (Text).  A piece is a chunk of          *)
(* characters; concatenation of strings is \o, a template literal is the   *)
(* concatenation of its literal chunks and its interpolated values, and a  *)
(* separator written by join(' ') is the piece " ".  The empty string and  *)
(* undefined / null are both the empty Text (both are falsy in the code).  *)
(* An optional non-string value is <<>> when undefined and <<v>> when      *)
(* given.                                                                  *)
(*                                                                         *)
(* A call of the library is one action: the whole handler runs, the        *)
(* results of the OS calls it makes are inputs drawn with \E, and the      *)
(* outcome of the call, with the OS calls it made, is left in `last`.      *)
(* Settle is the caller taking the outcome; the next call starts after it. *)
(***************************************************************************)
EXTENDS Integers, Sequences, FiniteSets, TLC

VARIABLES
  platform,   \* os.platform() of the host
  sys,        \* the printers the host knows: [printers, default]
  fs,         \* the file system: path -> [kind, data]
  printer,    \* the facade instance held by the caller (this.printer)
  last,       \* the call that just ended, Idle when the caller took it
  inflight    \* the printRaw calls a caller started without awaiting them

vars == <<platform, sys, fs, printer, last, inflight>>

----------------------------------------------------------------------------
(* Bounds *)

MaxCopies == 2      \* options.copies ranges over 0..MaxCopies
MaxErr    == 2      \* GetLastError() ranges over 0..MaxErr
MaxJobId  == 1      \* StartDocPrinterW returns 0..MaxJobId
MaxNow    == 0      \* Date.now() ranges over 0..MaxNow
MaxCalls  == 2      \* printRaw calls in flight at the same time

----------------------------------------------------------------------------
(* Text *)

RECURSIVE Flatten(_)
Flatten(ss) == IF ss = <<>> THEN <<>> ELSE Head(ss) \o Flatten(Tail(ss))

\* String.prototype.includes
Includes(hay, needle) ==
  \E i \in 0..(Len(hay) - Len(needle)) :
     SubSeq(hay, i + 1, i + Len(needle)) = needle

\* Array.prototype.join(' ')
RECURSIVE Join(_)
Join(args) ==
  IF args = <<>> THEN <<>>
  ELSE IF Len(args) = 1 THEN Head(args)
  ELSE Head(args) \o <<" ">> \o Join(Tail(args))

\* String.prototype.trim
RECURSIVE TrimLeft(_)
TrimLeft(t) ==
  IF t # <<>> /\ Head(t) = " " THEN TrimLeft(Tail(t)) ELSE t

RECURSIVE TrimRight(_)
TrimRight(t) ==
  IF t # <<>> /\ t[Len(t)] = " " THEN TrimRight(SubSeq(t, 1, Len(t) - 1)) ELSE t

Trim(t) == TrimRight(TrimLeft(t))

Null == <<>>
Given(x) == x # <<>>

----------------------------------------------------------------------------
(* The host *)

Platforms == {"win32", "linux", "darwin"}

PrinterLists == {<<>>, <<"A">>, <<"B", "A">>}

Range(s) == {s[i] : i \in 1..Len(s)}

\* a system reports a list of printers and possibly one of them as default
Systems ==
  {[printers |-> ps, default |-> d] :
     ps \in PrinterLists, d \in {Null} \cup {<<"A">>, <<"B">>}}

SystemOK(s) == s.default = Null \/ s.default[1] \in Range(s.printers)

UserPaths ==
  {<<"/docs/", "a.pdf">>, <<"/docs/", "my", " ", "doc.pdf">>, <<"/", "docs">>,
   <<"non-existent-file.pdf">>}

Buffers == {"d1", "d2"}

Missing == [kind |-> "missing", data |-> ""]
Dir     == [kind |-> "dir", data |-> ""]
File(d) == [kind |-> "file", data |-> d]

DocNames == {<<"Document">>, <<"job">>}

\* path.join('/tmp', `${documentName}-${Date.now()}.pdf`)
TempPath(documentName, now) ==
  <<"/tmp/">> \o documentName \o <<"-", ToString(now), ".pdf">>

TempPaths == {TempPath(d, n) : d \in DocNames, n \in 0..MaxNow}

Paths == UserPaths \cup TempPaths

InitFs ==
  [p \in Paths |->
     IF p = <<"/docs/", "a.pdf">> THEN File("d1")
     ELSE IF p = <<"/docs/", "my", " ", "doc.pdf">> THEN File("d2")
     ELSE IF p = <<"/", "docs">> THEN Dir
     ELSE Missing]

\* fs.existsSync
existsSync(f, p) == f[p].kind # "missing"
\* mutant: a directory passes for a file
isFileOrDir(f, p) == f[p].kind # "missing"

\* fs.statSync(p).isFile()
isFile(f, p) == f[p].kind = "file"

----------------------------------------------------------------------------
(* OS calls made by a handler, in order *)

Ev(api, arg, ok) == [api |-> api, arg |-> arg, ok |-> ok]

\* promisify(exec): resolves with stdout/stderr on exit code 0, rejects with
\* message `Command failed: ${cmd}\n${stderr}` otherwise
execAsync(cmd, out) ==
  IF out.code = 0
  THEN [rejected |-> FALSE, stdout |-> out.stdout, stderr |-> out.stderr,
        message |-> <<>>]
  ELSE [rejected |-> TRUE, stdout |-> out.stdout, stderr |-> out.stderr,
        message |-> <<"Command failed", ": ">> \o cmd \o <<"\n">> \o out.stderr]

----------------------------------------------------------------------------
(* lpstat, as CUPS answers it *)

LpstatDCmd == <<"lpstat", " ", "-d", " ", "2>/dev/null">>
LpstatPCmd == <<"lpstat", " ", "-p", " ", "-d", " ", "2>/dev/null", " ", "||",
                " ", "lpstat", " ", "-p">>

DefaultLine(s) ==
  IF s.default = Null
  THEN <<"no system ", "default destination">>
  ELSE <<"system ", "default destination:", " ">> \o s.default

PrinterLine(name) == <<"printer", " ", name, " ", "is idle.  enabled since">>

LpstatDOut(s, ok) ==
  IF ok THEN [code |-> 0, stdout |-> <<DefaultLine(s)>>, stderr |-> <<>>]
  ELSE [code |-> 1, stdout |-> <<>>, stderr |-> <<>>]

LpstatPOut(s, ok) ==
  IF ok
  THEN [code |-> 0,
        stdout |-> [i \in 1..Len(s.printers) |-> PrinterLine(s.printers[i])]
                     \o <<DefaultLine(s)>>,
        stderr |-> <<>>]
  ELSE [code |-> 1, stdout |-> <<>>, stderr |-> <<>>]

----------------------------------------------------------------------------
(* UnixPrinterManager (src/unix-printer.ts) *)

\* stdout.match(/default destination:\s+(\S+)/): the capture, or null
MatchDefault(text) ==
  IF \E i \in 1..(Len(text) - 2) :
       text[i] = "default destination:" /\ text[i + 1] = " " /\ text[i + 2] # " "
  THEN <<text[(CHOOSE i \in 1..(Len(text) - 2) :
                 /\ text[i] = "default destination:"
                 /\ text[i + 1] = " "
                 /\ text[i + 2] # " "
                 /\ \A k \in 1..(i - 1) :
                      ~(text[k] = "default destination:" /\ text[k + 1] = " "
                          /\ text[k + 2] # " ")) + 2]>>
  ELSE Null

\* line.startsWith('printer') and line.match(/printer\s+(\S+)\s+(.*)/)
IsPrinterLine(line) ==
  /\ Len(line) >= 4
  /\ line[1] = "printer"
  /\ line[2] = " "
  /\ line[3] # " "
  /\ line[4] = " "

\* what getDefaultPrinter makes of the settled exec: null when it rejected
DefaultPrinterFrom(r, ok) ==
  [status  |-> "resolved",
   message |-> <<>>,
   trace   |-> <<Ev("exec", LpstatDCmd, ok)>>,
   name    |-> IF r.rejected THEN Null ELSE MatchDefault(Flatten(r.stdout))]

\* the try/catch of getDefaultPrinter: a failed lpstat gives null
UnixGetDefaultPrinter(s, ok) ==
  DefaultPrinterFrom(execAsync(LpstatDCmd, LpstatDOut(s, ok)), ok)

RECURSIVE ParsePrinters(_, _)
ParsePrinters(lines, defaultPrinter) ==
  IF lines = <<>> THEN <<>>
  ELSE (IF IsPrinterLine(Head(lines))
        THEN <<[name      |-> <<Head(lines)[3]>>,
                status    |-> SubSeq(Head(lines), 5, Len(Head(lines))),
                isDefault |-> (<<Head(lines)[3]>> = defaultPrinter)]>>
        ELSE <<>>)
       \o ParsePrinters(Tail(lines), defaultPrinter)

\* mutant: no try/catch, a failed lpstat rejects
AvailablePrintersFromNoCatch(r, d, okP) ==
  IF r.rejected
  THEN [status |-> "rejected", message |-> r.message,
        trace |-> <<Ev("exec", LpstatPCmd, okP)>>,
        printers |-> <<>>]
  ELSE [status |-> "resolved", message |-> <<>>,
        trace |-> <<Ev("exec", LpstatPCmd, okP)>> \o d.trace,
        printers |-> ParsePrinters(r.stdout, d.name)]

\* what getAvailablePrinters makes of the settled exec r and of the default
\* printer d it asks for when r resolved: [] when r rejected
AvailablePrintersFrom(r, d, okP) ==
  IF r.rejected
  THEN [status |-> "resolved", message |-> <<>>,
        trace |-> <<Ev("exec", LpstatPCmd, okP)>>,
        printers |-> <<>>]
  ELSE [status |-> "resolved", message |-> <<>>,
        trace |-> <<Ev("exec", LpstatPCmd, okP)>> \o d.trace,
        printers |-> ParsePrinters(r.stdout, d.name)]

\* the try/catch of getAvailablePrinters: a failed lpstat gives []
UnixGetAvailablePrinters(s, okP, okD) ==
  AvailablePrintersFrom(execAsync(LpstatPCmd, LpstatPOut(s, okP)),
                        UnixGetDefaultPrinter(s, okD), okP)

\* printers.some(p => p.name === printerName)
PrinterExistsIn(a, printerName) ==
  [status |-> a.status, message |-> a.message, trace |-> a.trace,
   exists |-> \E i \in 1..Len(a.printers) : a.printers[i].name = printerName]

UnixPrinterExists(s, printerName, okP, okD) ==
  PrinterExistsIn(UnixGetAvailablePrinters(s, okP, okD), printerName)

----------------------------------------------------------------------------
(* UnixPDFPrinter (src/unix-printer.ts) *)

NoPrinter == [impl |-> "none", printerName |-> <<>>, initialized |-> FALSE]

UnixConstructor(printerName) ==
  IF Given(printerName) /\ Len(Trim(printerName)) = 0
  THEN [status |-> "threw", message |-> <<"Printer name cannot be empty">>,
        trace |-> <<>>, self |-> NoPrinter]
  ELSE [status |-> "returned", message |-> <<>>, trace |-> <<>>,
        self |-> [impl |-> "unix", printerName |-> printerName,
                  initialized |-> FALSE]]

\* initialize without a printer name, no default printer: d is the answer of
\* getDefaultPrinter, a that of getAvailablePrinters
InitializeFirstAvailable(self, d, a) ==
  IF Len(a.printers) = 0
  THEN [status |-> "rejected",
        message |-> <<"No printers found on this system">>,
        trace |-> d.trace \o a.trace, self |-> self]
  ELSE [status |-> "resolved", message |-> <<>>,
        trace |-> d.trace \o a.trace,
        self |-> [self EXCEPT !.printerName = a.printers[1].name,
                              !.initialized = TRUE]]

\* mutant: the default printer is not looked at
InitializeDefaultIgnored(self, d, a) == InitializeFirstAvailable(self, d, a)

\* initialize without a printer name
InitializeDefault(self, d, a) ==
  IF ~Given(d.name)
  THEN InitializeFirstAvailable(self, d, a)
  ELSE [status |-> "resolved", message |-> <<>>, trace |-> d.trace,
        self |-> [self EXCEPT !.printerName = d.name, !.initialized = TRUE]]

\* initialize with a printer name: e is the answer of printerExists
InitializeNamed(self, e) ==
  IF ~e.exists
  THEN [status |-> "rejected",
        message |-> <<"Printer not found", ": ">> \o self.printerName,
        trace |-> e.trace, self |-> self]
  ELSE [status |-> "resolved", message |-> <<>>, trace |-> e.trace,
        self |-> [self EXCEPT !.initialized = TRUE]]

\* o.ok1, o.ok2, o.ok3: whether the first, second, third lpstat run succeeds
initialize(self, s, o) ==
  IF self.initialized
  THEN [status |-> "resolved", message |-> <<>>, trace |-> <<>>, self |-> self]
  ELSE IF ~Given(self.printerName)
  THEN InitializeDefault(self, UnixGetDefaultPrinter(s, o.ok1),
                         UnixGetAvailablePrinters(s, o.ok2, o.ok3))
  ELSE InitializeNamed(self, UnixPrinterExists(s, self.printerName, o.ok1, o.ok2))

\* mutant: the two two-sided cases swapped
UnixDuplexArgsSwapped(duplex) ==
  IF ~Given(duplex) THEN <<>>
  ELSE IF duplex = <<"simplex">> THEN << <<"-o">>, <<"sides=one-sided">> >>
  ELSE IF duplex = <<"horizontal">>
       THEN << <<"-o">>, <<"sides=two-sided-long-edge">> >>
  ELSE IF duplex = <<"vertical">>
       THEN << <<"-o">>, <<"sides=two-sided-short-edge">> >>
  ELSE <<>>

\* the switch on options.duplex
UnixDuplexArgs(duplex) ==
  IF ~Given(duplex) THEN <<>>
  ELSE IF duplex = <<"simplex">> THEN << <<"-o">>, <<"sides=one-sided">> >>
  ELSE IF duplex = <<"horizontal">>
       THEN << <<"-o">>, <<"sides=two-sided-short-edge">> >>
  ELSE IF duplex = <<"vertical">>
       THEN << <<"-o">>, <<"sides=two-sided-long-edge">> >>
  ELSE <<>>

\* mutant: the values of orientation-requested swapped, monochrome for any
\* color, fit-to-page for any fitToPage
lpArgsMistranslated(printerName, options, pdfPath) ==
  << <<"-d">>, printerName >>
  \o (IF Given(options.copies) /\ options.copies[1] # 0 /\ options.copies[1] > 1
      THEN << <<"-n">>, <<ToString(options.copies[1])>> >> ELSE <<>>)
  \o UnixDuplexArgs(options.duplex)
  \o (IF Given(options.paperSize)
      THEN << <<"-o">>, <<"media=">> \o options.paperSize >> ELSE <<>>)
  \o (IF Given(options.orientation)
      THEN << <<"-o">>,
              <<"orientation-requested=">> \o
                (IF options.orientation = <<"landscape">> THEN <<"3">>
                 ELSE <<"4">>) >>
      ELSE <<>>)
  \o (IF Given(options.color)
      THEN << <<"-o">>,
              <<"print-color-mode=">> \o
                <<"monochrome">> >>
      ELSE <<>>)
  \o (IF Given(options.fitToPage)
      THEN << <<"-o">>, <<"fit-to-page">> >> ELSE <<>>)
  \o << pdfPath >>

\* the args array print builds
lpArgs(printerName, options, pdfPath) ==
  << <<"-d">>, printerName >>
  \o (IF Given(options.copies) /\ options.copies[1] # 0 /\ options.copies[1] > 1
      THEN << <<"-n">>, <<ToString(options.copies[1])>> >> ELSE <<>>)
  \o UnixDuplexArgs(options.duplex)
  \o (IF Given(options.paperSize)
      THEN << <<"-o">>, <<"media=">> \o options.paperSize >> ELSE <<>>)
  \o (IF Given(options.orientation)
      THEN << <<"-o">>,
              <<"orientation-requested=">> \o
                (IF options.orientation = <<"landscape">> THEN <<"4">>
                 ELSE <<"3">>) >>
      ELSE <<>>)
  \o (IF Given(options.color)
      THEN << <<"-o">>,
              <<"print-color-mode=">> \o
                (IF options.color[1] THEN <<"color">> ELSE <<"monochrome">>) >>
      ELSE <<>>)
  \o (IF Given(options.fitToPage) /\ options.fitToPage[1]
      THEN << <<"-o">>, <<"fit-to-page">> >> ELSE <<>>)
  \o << pdfPath >>

\* `lp ${args.join(' ')}`
lpCommand(args) == <<"lp", " ">> \o Join(args)

\* mutant: stderr of a successful lp is not looked at
SubmitFromIgnoringStderr(r, command) ==
  IF r.rejected
  THEN [status |-> "rejected",
        message |-> <<"Failed to print", ": ">> \o r.message,
        trace |-> <<Ev("exec", command, FALSE)>>]
  ELSE [status |-> "resolved", message |-> <<>>,
        trace |-> <<Ev("exec", command, TRUE)>>]

\* mutant: a failed lp is run a second time and its failure swallowed
SubmitFromRetry(r, command) ==
  IF r.rejected \/ (Given(r.stderr) /\ ~Includes(r.stderr, <<"request id">>))
  THEN [status |-> "resolved", message |-> <<>>,
        trace |-> <<Ev("exec", command, ~r.rejected),
                    Ev("exec", command, TRUE)>>]
  ELSE [status |-> "resolved", message |-> <<>>,
        trace |-> <<Ev("exec", command, TRUE)>>]

\* the try/catch around execAsync(command), r being the settled exec
SubmitFrom(r, command) ==
  IF r.rejected
  THEN [status |-> "rejected",
        message |-> <<"Failed to print", ": ">> \o r.message,
        trace |-> <<Ev("exec", command, FALSE)>>]
  ELSE IF Given(r.stderr) /\ ~Includes(r.stderr, <<"request id">>)
  THEN [status |-> "rejected",
        message |-> <<"Failed to print", ": ", "Print command failed", ": ">>
                    \o r.stderr,
        trace |-> <<Ev("exec", command, TRUE)>>]
  ELSE [status |-> "resolved", message |-> <<>>,
        trace |-> <<Ev("exec", command, TRUE)>>]

\* o.lp is what lp does
UnixSubmit(command, o) == SubmitFrom(execAsync(command, o.lp), command)

\* print after initialize resolved as i and lp settled as r
PrintSubmitted(i, r, command) ==
  [status |-> r.status, message |-> r.message, trace |-> i.trace \o r.trace,
   self |-> i.self, command |-> command]

PrintCommand(i, options, pdfPath) ==
  lpCommand(lpArgs(IF Given(options.printer) THEN options.printer
                   ELSE i.self.printerName, options, pdfPath))

\* print after initialize settled as i
PrintInitialized(i, command, o) ==
  IF i.status = "rejected"
  THEN [status |-> "rejected", message |-> i.message,
        trace |-> i.trace, self |-> i.self, command |-> <<>>]
  ELSE PrintSubmitted(i, UnixSubmit(command, o), command)

PrintValidated(i, options, pdfPath, o) ==
  PrintInitialized(i, PrintCommand(i, options, pdfPath), o)

Unix_print(self, f, s, pdfPath, options, o) ==
  IF ~existsSync(f, pdfPath)
  THEN [status |-> "rejected",
        message |-> <<"PDF file not found", ": ">> \o pdfPath,
        trace |-> <<>>, self |-> self, command |-> <<>>]
  ELSE IF ~isFile(f, pdfPath)
  THEN [status |-> "rejected",
        message |-> <<"Path is not a file", ": ">> \o pdfPath,
        trace |-> <<>>, self |-> self, command |-> <<>>]
  ELSE PrintValidated(initialize(self, s, o), options, pdfPath, o)

\* documentName: string = 'Document'
DocumentName(d) == IF d = <<>> THEN <<"Document">> ELSE d

\* mutant: the temp file is removed after the try block, not in a finally
PrintRawCleanupAfterTry(r, written, tempFile, writeOk) ==
  [status  |-> r.status,
   message |-> r.message,
   trace   |-> <<Ev("writeFileSync", tempFile, writeOk)>> \o r.trace
               \o (IF r.status = "resolved" /\ existsSync(written, tempFile)
                   THEN <<Ev("unlinkSync", tempFile, TRUE)>> ELSE <<>>),
   self    |-> r.self,
   command |-> r.command,
   fs      |-> IF r.status = "resolved" /\ existsSync(written, tempFile)
               THEN [written EXCEPT ![tempFile] = Missing] ELSE written]

\* the finally of printRaw: r is what the try block did on the file system
\* written
PrintRawCleanup(r, written, tempFile, writeOk) ==
  [status  |-> r.status,
   message |-> r.message,
   trace   |-> <<Ev("writeFileSync", tempFile, writeOk)>> \o r.trace
               \o (IF existsSync(written, tempFile)
                   THEN <<Ev("unlinkSync", tempFile, TRUE)>> ELSE <<>>),
   self    |-> r.self,
   command |-> r.command,
   fs      |-> IF existsSync(written, tempFile)
               THEN [written EXCEPT ![tempFile] = Missing] ELSE written]

\* the try of printRaw on the temp file
PrintRawTry(self, written, s, tempFile, options, o) ==
  IF o.writeOk
  THEN PrintRawCleanup(Unix_print(self, written, s, tempFile, options, o),
                       written, tempFile, TRUE)
  ELSE PrintRawCleanup([status |-> "rejected",
                        message |-> <<"EACCES", ": ">> \o tempFile,
                        trace |-> <<>>, self |-> self, command |-> <<>>],
                       written, tempFile, FALSE)

\* o.writeOk: whether fs.writeFileSync succeeds; o.now: Date.now()
Unix_printRaw(self, f, s, data, documentName, options, o) ==
  PrintRawTry(self,
              IF o.writeOk
              THEN [f EXCEPT ![TempPath(DocumentName(documentName), o.now)]
                               = File(data)]
              ELSE f,
              s, TempPath(DocumentName(documentName), o.now), options, o)

UnixGetPrinterName(self) == self.printerName

----------------------------------------------------------------------------
(* Constants of windows-print-api.ts, with the values of wingdi.h *)

DM_ORIENTATION    == 1
DM_PAPERSIZE      == 2
DM_COPIES         == 256
DM_DEFAULTSOURCE  == 512
DM_COLOR          == 2048
DM_DUPLEX         == 4096
DUPLEX_SIMPLEX    == 1
DUPLEX_VERTICAL   == 2
DUPLEX_HORIZONTAL == 3
PORTRAIT          == 1
LANDSCAPE         == 2
MONOCHROME        == 1
COLOR_MODE        == 2
PAPER_LETTER      == 1
PAPER_A4          == 9

\* a | b on non-negative integers
RECURSIVE BitOr(_, _)
BitOr(a, b) ==
  IF a = 0 THEN b
  ELSE IF b = 0 THEN a
  ELSE (IF a % 2 = 1 \/ b % 2 = 1 THEN 1 ELSE 0) + 2 * BitOr(a \div 2, b \div 2)

\* a & b on non-negative integers
RECURSIVE BitAnd(_, _)
BitAnd(a, b) ==
  IF a = 0 \/ b = 0 THEN 0
  ELSE (IF a % 2 = 1 /\ b % 2 = 1 THEN 1 ELSE 0) + 2 * BitAnd(a \div 2, b \div 2)

----------------------------------------------------------------------------
(* PrinterManager of printer-manager.ts (Windows) *)

ToLower(piece) ==
  CASE piece = "A" -> "a"
    [] piece = "B" -> "b"
    [] piece = "Z" -> "z"
    [] OTHER -> piece

LowerText(t) == [i \in 1..Len(t) |-> ToLower(t[i])]

WinGetAvailablePrinters(s) ==
  [i \in 1..Len(s.printers) |->
     [name |-> <<s.printers[i]>>, isDefault |-> (<<s.printers[i]>> = s.default)]]

WinGetDefaultPrinter(s) == s.default

WinPrinterExists(s, printerName) ==
  \E i \in 1..Len(s.printers) :
     LowerText(<<s.printers[i]>>) = LowerText(printerName)

Handle == <<"hPrinter">>

\* openPrinter returns the handle of OpenPrinterW or throws
WinOpenPrinter(printerName, ok) ==
  IF ok
  THEN [status |-> "returned", message |-> <<>>,
        trace |-> <<Ev("OpenPrinterW", printerName, TRUE)>>]
  ELSE [status |-> "threw",
        message |-> <<"Failed to open printer", ": ">> \o printerName,
        trace |-> <<Ev("OpenPrinterW", printerName, FALSE)>>]

WinClosePrinter == <<Ev("ClosePrinter", Handle, TRUE)>>

----------------------------------------------------------------------------
(* PDFPrinter of pdf-printer.ts (Windows) *)

\* mutant: no fallback to the first available printer
WindowsConstructorNoFallback(s, printerName) ==
  IF Given(printerName)
  THEN IF ~WinPrinterExists(s, printerName)
       THEN [status |-> "threw",
             message |-> <<"Printer not found", ": ">> \o printerName,
             trace |-> <<>>, self |-> NoPrinter]
       ELSE [status |-> "returned", message |-> <<>>, trace |-> <<>>,
             self |-> [impl |-> "windows", printerName |-> printerName,
                       initialized |-> FALSE]]
  ELSE LET defaultPrinter == WinGetDefaultPrinter(s)
       IN IF ~Given(defaultPrinter)
          THEN [status |-> "threw",
                message |-> <<"No printers found on this system">>,
                trace |-> <<>>, self |-> NoPrinter]
          ELSE [status |-> "returned", message |-> <<>>, trace |-> <<>>,
                self |-> [impl |-> "windows", printerName |-> defaultPrinter,
                          initialized |-> FALSE]]

WindowsConstructor(s, printerName) ==
  IF Given(printerName)
  THEN IF ~WinPrinterExists(s, printerName)
       THEN [status |-> "threw",
             message |-> <<"Printer not found", ": ">> \o printerName,
             trace |-> <<>>, self |-> NoPrinter]
       ELSE [status |-> "returned", message |-> <<>>, trace |-> <<>>,
             self |-> [impl |-> "windows", printerName |-> printerName,
                       initialized |-> FALSE]]
  ELSE LET defaultPrinter == WinGetDefaultPrinter(s)
           printers == WinGetAvailablePrinters(s)
       IN IF ~Given(defaultPrinter)
          THEN IF Len(printers) = 0
               THEN [status |-> "threw",
                     message |-> <<"No printers found on this system">>,
                     trace |-> <<>>, self |-> NoPrinter]
               ELSE [status |-> "returned", message |-> <<>>, trace |-> <<>>,
                     self |-> [impl |-> "windows",
                               printerName |-> printers[1].name,
                               initialized |-> FALSE]]
          ELSE [status |-> "returned", message |-> <<>>, trace |-> <<>>,
                self |-> [impl |-> "windows", printerName |-> defaultPrinter,
                          initialized |-> FALSE]]

EmptyDevMode ==
  [dmFields |-> 0, dmCopies |-> <<>>, dmDuplex |-> <<>>, dmPaperSize |-> <<>>,
   dmDefaultSource |-> <<>>, dmOrientation |-> <<>>, dmColor |-> <<>>]

\* mutant: the two two-sided cases swapped
WinDuplexSwapped(duplex) ==
  IF duplex = <<"simplex">> THEN <<DUPLEX_SIMPLEX>>
  ELSE IF duplex = <<"horizontal">> THEN <<DUPLEX_VERTICAL>>
  ELSE IF duplex = <<"vertical">> THEN <<DUPLEX_HORIZONTAL>>
  ELSE <<>>

\* the switch on options.duplex
WinDuplex(duplex) ==
  IF duplex = <<"simplex">> THEN <<DUPLEX_SIMPLEX>>
  ELSE IF duplex = <<"horizontal">> THEN <<DUPLEX_HORIZONTAL>>
  ELSE IF duplex = <<"vertical">> THEN <<DUPLEX_VERTICAL>>
  ELSE <<>>

\* the steps of createDevMode, each on the devMode d built so far
SetCopies(d, options) ==
  IF Given(options.copies) /\ options.copies[1] # 0 /\ options.copies[1] > 0
  THEN [d EXCEPT !.dmCopies = options.copies,
                 !.dmFields = BitOr(@, DM_COPIES)]
  ELSE d

SetDuplex(d, options) ==
  IF Given(options.duplex)
  THEN [d EXCEPT !.dmDuplex = WinDuplex(options.duplex),
                 !.dmFields = BitOr(@, DM_DUPLEX)]
  ELSE d

SetPaperSize(d, options) ==
  IF Given(options.paperSize) /\ options.paperSize[1] # 0
  THEN [d EXCEPT !.dmPaperSize = options.paperSize,
                 !.dmFields = BitOr(@, DM_PAPERSIZE)]
  ELSE d

SetPaperSource(d, options) ==
  IF Given(options.paperSource) /\ options.paperSource[1] # 0
  THEN [d EXCEPT !.dmDefaultSource = options.paperSource,
                 !.dmFields = BitOr(@, DM_DEFAULTSOURCE)]
  ELSE d

SetOrientation(d, options) ==
  IF Given(options.orientation)
  THEN [d EXCEPT !.dmOrientation = IF options.orientation = <<"portrait">>
                                   THEN <<PORTRAIT>> ELSE <<LANDSCAPE>>,
                 !.dmFields = BitOr(@, DM_ORIENTATION)]
  ELSE d

SetColor(d, options) ==
  IF Given(options.color)
  THEN [d EXCEPT !.dmColor = IF options.color[1] THEN <<COLOR_MODE>>
                             ELSE <<MONOCHROME>>,
                 !.dmFields = BitOr(@, DM_COLOR)]
  ELSE d

createDevMode(options) ==
  SetColor(
    SetOrientation(
      SetPaperSource(
        SetPaperSize(
          SetDuplex(
            SetCopies(EmptyDevMode, options),
            options),
          options),
        options),
      options),
    options)

\* getLastError: GetLastError(), or 0 when the binding throws
getLastError(o) == IF o.errThrows THEN 0 ELSE o.err

\* path.basename: the pieces after the last directory piece
DirPieces == {"/", "/docs/", "/tmp/"}

RECURSIVE basename(_)
basename(p) ==
  IF p = <<>> THEN <<>>
  ELSE IF \E i \in 1..Len(p) : p[i] \in DirPieces THEN basename(Tail(p))
  ELSE p

\* mutant: one finally for page and document, EndPagePrinter runs although
\* StartPagePrinter failed
WinJobOneFinally(docName, data, o) ==
  LET startDoc == <<Ev("StartDocPrinterW", docName, o.jobId # 0)>>
  IN IF o.jobId = 0
     THEN [status |-> "rejected",
           message |-> <<"Failed to start print job. Windows error code", ": ",
                         ToString(getLastError(o))>>,
           trace |-> startDoc \o <<Ev("GetLastError", <<>>, ~o.errThrows)>>]
     ELSE IF ~o.page
     THEN [status |-> "rejected", message |-> <<"Failed to start page">>,
           trace |-> startDoc \o <<Ev("StartPagePrinter", Handle, FALSE),
                                   Ev("EndPagePrinter", Handle, TRUE),
                                   Ev("EndDocPrinter", Handle, TRUE)>>]
     ELSE [status |-> IF o.write THEN "resolved" ELSE "rejected",
           message |-> IF o.write THEN <<>>
                       ELSE <<"Failed to write data to printer">>,
           trace |-> startDoc \o <<Ev("StartPagePrinter", Handle, TRUE),
                                   Ev("WritePrinter", <<data>>, o.write),
                                   Ev("EndPagePrinter", Handle, TRUE),
                                   Ev("EndDocPrinter", Handle, TRUE)>>]

\* StartDocPrinterW ... EndDocPrinter of print and printRaw, on an open handle
\* o.jobId, o.page, o.write: what StartDocPrinterW, StartPagePrinter and
\* WritePrinter return
WinJob(docName, data, o) ==
  LET startDoc == <<Ev("StartDocPrinterW", docName, o.jobId # 0)>>
  IN IF o.jobId = 0
     THEN [status |-> "rejected",
           message |-> <<"Failed to start print job. Windows error code", ": ",
                         ToString(getLastError(o))>>,
           trace |-> startDoc \o <<Ev("GetLastError", <<>>, ~o.errThrows)>>]
     ELSE IF ~o.page
     THEN [status |-> "rejected", message |-> <<"Failed to start page">>,
           trace |-> startDoc \o <<Ev("StartPagePrinter", Handle, FALSE),
                                   Ev("EndDocPrinter", Handle, TRUE)>>]
     ELSE IF ~o.write
     THEN [status |-> "rejected",
           message |-> <<"Failed to write data to printer">>,
           trace |-> startDoc \o <<Ev("StartPagePrinter", Handle, TRUE),
                                   Ev("WritePrinter", <<data>>, FALSE),
                                   Ev("EndPagePrinter", Handle, TRUE),
                                   Ev("EndDocPrinter", Handle, TRUE)>>]
     ELSE [status |-> "resolved", message |-> <<>>,
           trace |-> startDoc \o <<Ev("StartPagePrinter", Handle, TRUE),
                                   Ev("WritePrinter", <<data>>, TRUE),
                                   Ev("EndPagePrinter", Handle, TRUE),
                                   Ev("EndDocPrinter", Handle, TRUE)>>]

\* mutant: no finally around the job, the handle is closed when the job
\* went through
PrintOnHandleNoFinally(h, j, read, devMode) ==
  IF h.status = "threw"
  THEN [status |-> "rejected", message |-> h.message, trace |-> h.trace,
        devMode |-> <<>>]
  ELSE [status |-> j.status, message |-> j.message,
        trace |-> h.trace \o read \o j.trace
                  \o (IF j.status = "resolved" THEN WinClosePrinter ELSE <<>>),
        devMode |-> devMode]

\* print and printRaw on the handle h of openPrinter, j being the job
PrintOnHandle(h, j, read, devMode) ==
  IF h.status = "threw"
  THEN [status |-> "rejected", message |-> h.message, trace |-> h.trace,
        devMode |-> <<>>]
  ELSE [status |-> j.status, message |-> j.message,
        trace |-> h.trace \o read \o j.trace \o WinClosePrinter,
        devMode |-> devMode]

\* fs.readFileSync failed on the open handle
ReadFailed(h, pdfPath, devMode) ==
  IF h.status = "threw"
  THEN [status |-> "rejected", message |-> h.message, trace |-> h.trace,
        devMode |-> <<>>]
  ELSE [status |-> "rejected", message |-> <<"EACCES", ": ">> \o pdfPath,
        trace |-> h.trace \o <<Ev("readFileSync", pdfPath, FALSE)>>
                  \o WinClosePrinter,
        devMode |-> devMode]

WinPrinterName(self, options) ==
  IF Given(options.printer) THEN options.printer ELSE self.printerName

\* o.open, o.read: whether OpenPrinterW and fs.readFileSync succeed
Windows_print(self, f, pdfPath, options, o) ==
  IF ~existsSync(f, pdfPath)
  THEN [status |-> "rejected",
        message |-> <<"PDF file not found", ": ">> \o pdfPath,
        trace |-> <<>>, devMode |-> <<>>]
  ELSE IF ~isFile(f, pdfPath)
  THEN [status |-> "rejected",
        message |-> <<"Path is not a file", ": ">> \o pdfPath,
        trace |-> <<>>, devMode |-> <<>>]
  ELSE IF ~o.read
  THEN ReadFailed(WinOpenPrinter(WinPrinterName(self, options), o.open),
                  pdfPath, <<createDevMode(options)>>)
  ELSE PrintOnHandle(WinOpenPrinter(WinPrinterName(self, options), o.open),
                     WinJob(basename(pdfPath), f[pdfPath].data, o),
                     <<Ev("readFileSync", pdfPath, TRUE)>>,
                     <<createDevMode(options)>>)

Windows_printRaw(self, data, documentName, options, o) ==
  PrintOnHandle(WinOpenPrinter(WinPrinterName(self, options), o.open),
                WinJob(DocumentName(documentName), data, o), <<>>, <<>>)

WindowsGetPrinterName(self) == self.printerName

----------------------------------------------------------------------------
(* Inputs of the calls *)

NoOptions ==
  [printer |-> <<>>, copies |-> <<>>, duplex |-> <<>>, paperSize |-> <<>>,
   paperSource |-> <<>>, orientation |-> <<>>, color |-> <<>>,
   fitToPage |-> <<>>]

Copies       == {<<>>} \cup {<<n>> : n \in 0..MaxCopies}
Duplexes     == {<<>>, <<"simplex">>, <<"horizontal">>, <<"vertical">>,
                 <<"tumble">>}
Orientations == {<<>>, <<"portrait">>, <<"landscape">>}
Colors       == {<<>>, <<TRUE>>, <<FALSE>>}

\* UnixPrintOptions: paperSize is a media name
AllUnixOptions ==
  [printer : {<<>>, <<"B">>}, copies : Copies, duplex : Duplexes,
   paperSize : {<<>>, <<"a4">>}, paperSource : {<<>>},
   orientation : Orientations, color : Colors,
   fitToPage : {<<>>, <<TRUE>>, <<FALSE>>}]

\* PrintOptions of pdf-printer.ts: paperSize and paperSource are numbers
AllWindowsOptions ==
  [printer : {<<>>, <<"B">>}, copies : Copies, duplex : Duplexes,
   paperSize : {<<>>, <<0>>, <<PAPER_A4>>}, paperSource : {<<>>, <<7>>},
   orientation : Orientations, color : Colors, fitToPage : {<<>>}]

\* the options of the calls made while the host and the instance vary
SomeUnixOptions ==
  {NoOptions,
   [NoOptions EXCEPT !.printer = <<"B">>],
   [NoOptions EXCEPT !.duplex = <<"vertical">>, !.copies = <<2>>,
                     !.paperSize = <<"a4">>]}

SomeWindowsOptions ==
  {NoOptions,
   [NoOptions EXCEPT !.printer = <<"B">>],
   [NoOptions EXCEPT !.duplex = <<"vertical">>, !.copies = <<2>>,
                     !.paperSize = <<PAPER_A4>>]}

PrinterNames == {<<>>, <<"A">>, <<"a">>, <<"Z">>, <<" ">>}

DocArgs == {<<>>, <<"job">>}

\* what lp does: exit code, stdout lines, stderr
LpOutcomes ==
  {[code |-> 0, stdout |-> << <<"request id", " is A-1 (1 file(s))">> >>,
    stderr |-> <<>>],
   [code |-> 0, stdout |-> <<>>, stderr |-> <<"request id", " is A-1">>],
   [code |-> 0, stdout |-> <<>>, stderr |-> <<"lp: warning">>],
   [code |-> 1, stdout |-> <<>>,
    stderr |-> <<"lp: Error - The printer or class does not exist.">>],
   [code |-> 1, stdout |-> <<>>, stderr |-> <<>>],
   [code |-> 1, stdout |-> <<>>, stderr |-> <<"request id", " is A-1">>]}

LpNone == [code |-> 0, stdout |-> <<>>, stderr |-> <<>>]

\* which of the lpstat runs of a call succeed: all; all but the first; none
\* but the third; the second only; the first and third only
LpstatRuns ==
  {<<TRUE, TRUE, TRUE>>, <<FALSE, TRUE, TRUE>>, <<FALSE, FALSE, TRUE>>,
   <<FALSE, TRUE, FALSE>>, <<TRUE, FALSE, TRUE>>}

UnixOracles ==
  {[ok1 |-> k[1], ok2 |-> k[2], ok3 |-> k[3], lp |-> l, writeOk |-> w,
    now |-> n] :
     k \in LpstatRuns, l \in LpOutcomes, w \in BOOLEAN, n \in 0..MaxNow}

\* lpstat and the file system work; lp does any of the things it can do
BenignUnixOracles ==
  [ok1 : {TRUE}, ok2 : {TRUE}, ok3 : {TRUE},
   lp : {l \in LpOutcomes : l.code = 0 /\ l.stderr = <<>>},
   writeOk : {TRUE}, now : {0}]

ErrCodes == 1..MaxErr

WindowsOracles ==
  [open : BOOLEAN, read : BOOLEAN, jobId : 0..MaxJobId, page : BOOLEAN,
   write : BOOLEAN, err : ErrCodes, errThrows : BOOLEAN]

\* the spooler accepts the job
BenignWindowsOracles ==
  [open : {TRUE}, read : {TRUE}, jobId : {1}, page : {TRUE},
   write : {TRUE}, err : {1}, errThrows : {FALSE}]

\* one oracle for each course a Windows job can take
WinCanon(o) ==
  /\ ~o.open => (o.read /\ o.jobId = 1 /\ o.page /\ o.write)
  /\ ~o.read => (o.jobId = 1 /\ o.page /\ o.write)
  /\ (o.jobId # 0 \/ ~o.open \/ ~o.read) => (o.err = 1 /\ ~o.errThrows)
  /\ o.jobId = 0 => (o.page /\ o.write)
  /\ ~o.page => o.write

\* one oracle for each course a Unix call can take: answers nobody asks for
\* are fixed
UnixCanon(self, f, pdfPath, o) ==
  /\ (self.initialized \/ ~isFile(f, pdfPath)) => (o.ok1 /\ o.ok2 /\ o.ok3)
  /\ ~isFile(f, pdfPath) => o.lp.code = 0 /\ o.lp.stderr = <<>>
  /\ Given(self.printerName) => o.ok3

----------------------------------------------------------------------------
(* The facade of index.ts and its caller *)

\* mutant: every platform but linux takes the Windows path
isWindowsUnlessLinux(p) == p # "linux"

isWindows(p) == p = "win32"

\* a printRaw call that was not started
NotStarted ==
  [pc |-> "idle", data |-> "", tempFile |-> <<>>, self |-> NoPrinter,
   command |-> <<>>, printed |-> <<>>, status |-> "none", now |-> 0]

Calls == 1..MaxCalls

NoCalls == [c \in Calls |-> NotStarted]

Idle ==
  [op |-> "idle", impl |-> "none", status |-> "none", message |-> <<>>,
   trace |-> <<>>, name |-> <<>>, path |-> <<>>, options |-> NoOptions,
   data |-> "", command |-> <<>>, devMode |-> <<>>, printers |-> <<>>,
   exists |-> FALSE, lastError |-> 0, lp |-> LpNone, before |-> NoPrinter]

Init ==
  /\ platform \in Platforms
  /\ sys \in {s \in Systems : SystemOK(s)}
  /\ fs = InitFs
  /\ printer = NoPrinter
  /\ last = Idle
  /\ inflight = NoCalls

\* new PDFPrinter(printerName)
Construct(printerName) ==
  /\ last = Idle
  /\ LET r == IF isWindows(platform) THEN WindowsConstructor(sys, printerName)
              ELSE UnixConstructor(printerName)
     IN /\ last' = [Idle EXCEPT !.op = "new", !.name = printerName,
                      !.impl = IF isWindows(platform) THEN "windows" ELSE "unix",
                      !.status = r.status, !.message = r.message,
                      !.before = printer]
        /\ printer' = IF r.status = "returned" THEN r.self ELSE printer
  /\ UNCHANGED <<inflight, platform, sys, fs>>

\* PDFPrinter.create(printerName): the class of index.ts has no static create
Create(printerName) ==
  /\ last = Idle
  /\ last' = [Idle EXCEPT !.op = "create", !.name = printerName,
                !.status = "threw",
                !.message = <<"PDFPrinter.create is not a function">>,
                !.before = printer]
  /\ UNCHANGED <<inflight, platform, sys, fs, printer>>

printUnix(pdfPath, Opts, Oracles) ==
  /\ last = Idle
  /\ printer.impl = "unix"
  /\ \E options \in Opts, o \in Oracles :
       /\ o.writeOk /\ o.now = 0
       /\ UnixCanon(printer, fs, pdfPath, o)
       /\ LET r == Unix_print(printer, fs, sys, pdfPath, options, o)
          IN /\ last' = [Idle EXCEPT !.op = "print", !.impl = "unix",
                           !.path = pdfPath, !.options = options,
                           !.status = r.status, !.message = r.message,
                           !.trace = r.trace, !.command = r.command,
                           !.lp = IF r.command # <<>> THEN o.lp ELSE LpNone,
                           !.before = printer]
             /\ printer' = r.self
  /\ UNCHANGED <<inflight, platform, sys, fs>>

printWindows(pdfPath, Opts, Oracles) ==
  /\ last = Idle
  /\ printer.impl = "windows"
  /\ \E options \in Opts, o \in Oracles :
       /\ WinCanon(o)
       /\ isFile(fs, pdfPath) \/ (o.open /\ o.read /\ o.jobId = 1 /\ o.page /\ o.write)
       /\ LET r == Windows_print(printer, fs, pdfPath, options, o)
          IN last' = [Idle EXCEPT !.op = "print", !.impl = "windows",
                        !.path = pdfPath, !.options = options,
                        !.status = r.status, !.message = r.message,
                        !.trace = r.trace, !.devMode = r.devMode,
                        !.lastError = o.err, !.before = printer]
  /\ UNCHANGED <<inflight, platform, sys, fs, printer>>

\* PDFPrinter.print: this.printer.print(pdfPath, options)
print(pdfPath) ==
  \/ printUnix(pdfPath, SomeUnixOptions, UnixOracles)
  \/ printWindows(pdfPath, SomeWindowsOptions, WindowsOracles)

printRawUnix(data, documentName) ==
  /\ last = Idle
  /\ printer.impl = "unix"
  /\ \E options \in SomeUnixOptions, o \in UnixOracles :
       LET tempFile == TempPath(DocumentName(documentName), o.now)
           r == Unix_printRaw(printer, fs, sys, data, documentName, options, o)
       IN /\ o.writeOk => UnixCanon(printer, [fs EXCEPT ![tempFile] = File(data)],
                                    tempFile, o)
          /\ ~o.writeOk => (o.ok1 /\ o.ok2 /\ o.ok3 /\ o.lp.code = 0
                             /\ o.lp.stderr = <<>>)
          /\ last' = [Idle EXCEPT !.op = "printRaw", !.impl = "unix",
                        !.name = documentName, !.data = data,
                        !.path = tempFile, !.options = options,
                        !.status = r.status, !.message = r.message,
                        !.trace = r.trace, !.command = r.command,
                        !.lp = IF r.command # <<>> THEN o.lp ELSE LpNone,
                        !.before = printer]
          /\ printer' = r.self
          /\ fs' = r.fs
  /\ UNCHANGED <<inflight, platform, sys>>

printRawWindows(data, documentName) ==
  /\ last = Idle
  /\ printer.impl = "windows"
  /\ \E options \in SomeWindowsOptions, o \in WindowsOracles :
       /\ WinCanon(o) /\ o.read
       /\ LET r == Windows_printRaw(printer, data, documentName, options, o)
          IN last' = [Idle EXCEPT !.op = "printRaw", !.impl = "windows",
                        !.name = documentName, !.data = data,
                        !.options = options,
                        !.status = r.status, !.message = r.message,
                        !.trace = r.trace, !.devMode = r.devMode,
                        !.lastError = o.err, !.before = printer]
  /\ UNCHANGED <<inflight, platform, sys, fs, printer>>

\* PDFPrinter.printRaw: this.printer.printRaw(data, documentName, options)
printRaw(data, documentName) ==
  printRawUnix(data, documentName) \/ printRawWindows(data, documentName)

\* PDFPrinter.getPrinterName: this.printer.getPrinterName()
GetPrinterName ==
  /\ last = Idle
  /\ printer.impl # "none"
  /\ last' = [Idle EXCEPT !.op = "getPrinterName", !.impl = printer.impl,
                !.status = "returned",
                !.name = IF printer.impl = "windows"
                         THEN WindowsGetPrinterName(printer)
                         ELSE UnixGetPrinterName(printer),
                !.before = printer]
  /\ UNCHANGED <<inflight, platform, sys, fs, printer>>

\* PrinterManager.getAvailablePrinters
GetAvailablePrinters ==
  /\ last = Idle
  /\ \/ /\ isWindows(platform)
        /\ last' = [Idle EXCEPT !.op = "getAvailablePrinters",
                      !.impl = "windows", !.status = "resolved",
                      !.printers = WinGetAvailablePrinters(sys),
                      !.before = printer]
     \/ /\ ~isWindows(platform)
        /\ \E okP \in BOOLEAN, okD \in BOOLEAN :
             LET r == UnixGetAvailablePrinters(sys, okP, okD)
             IN /\ okP \/ okD
                /\ last' = [Idle EXCEPT !.op = "getAvailablePrinters",
                              !.impl = "unix", !.status = r.status,
                              !.message = r.message, !.trace = r.trace,
                              !.printers = r.printers, !.before = printer]
  /\ UNCHANGED <<inflight, platform, sys, fs, printer>>

\* PrinterManager.getDefaultPrinter
GetDefaultPrinter ==
  /\ last = Idle
  /\ \/ /\ isWindows(platform)
        /\ last' = [Idle EXCEPT !.op = "getDefaultPrinter",
                      !.impl = "windows", !.status = "resolved",
                      !.name = WinGetDefaultPrinter(sys), !.before = printer]
     \/ /\ ~isWindows(platform)
        /\ \E ok \in BOOLEAN :
             LET r == UnixGetDefaultPrinter(sys, ok)
             IN last' = [Idle EXCEPT !.op = "getDefaultPrinter",
                           !.impl = "unix", !.status = r.status,
                           !.message = r.message, !.trace = r.trace,
                           !.name = r.name, !.before = printer]
  /\ UNCHANGED <<inflight, platform, sys, fs, printer>>

\* PrinterManager.printerExists
PrinterExists(printerName) ==
  /\ last = Idle
  /\ \/ /\ isWindows(platform)
        /\ last' = [Idle EXCEPT !.op = "printerExists", !.impl = "windows",
                      !.status = "resolved", !.name = printerName,
                      !.exists = WinPrinterExists(sys, printerName),
                      !.before = printer]
     \/ /\ ~isWindows(platform)
        /\ \E okP \in BOOLEAN, okD \in BOOLEAN :
             LET r == UnixPrinterExists(sys, printerName, okP, okD)
             IN /\ okP \/ okD
                /\ last' = [Idle EXCEPT !.op = "printerExists",
                              !.impl = "unix", !.status = r.status,
                              !.message = r.message, !.trace = r.trace,
                              !.name = printerName, !.exists = r.exists,
                              !.before = printer]
  /\ UNCHANGED <<inflight, platform, sys, fs, printer>>

\* the caller takes the outcome of the call
Settle ==
  /\ last # Idle
  /\ last' = Idle
  /\ UNCHANGED <<inflight, platform, sys, fs, printer>>

Next ==
  \/ \E n \in PrinterNames : Construct(n)
  \/ \E n \in PrinterNames : Create(n)
  \/ \E p \in UserPaths : print(p)
  \/ \E d \in Buffers, n \in DocArgs : printRaw(d, n)
  \/ GetPrinterName
  \/ GetAvailablePrinters
  \/ GetDefaultPrinter
  \/ \E n \in PrinterNames : PrinterExists(n)
  \/ Settle

Spec == Init /\ [][Next]_vars

----------------------------------------------------------------------------
(* Option translation: print with every combination of options, on a host  *)
(* with printer A as default where lpstat and the spooler work             *)

OptionsSystem == [printers |-> <<"A">>, default |-> <<"A">>]

InitOptions ==
  /\ platform \in Platforms
  /\ sys = OptionsSystem
  /\ fs = InitFs
  /\ printer = IF isWindows(platform)
               THEN WindowsConstructor(sys, <<>>).self
               ELSE UnixConstructor(<<>>).self
  /\ last = Idle
  /\ inflight = NoCalls

printOptions(pdfPath) ==
  \/ printUnix(pdfPath, AllUnixOptions, BenignUnixOracles)
  \/ printWindows(pdfPath, AllWindowsOptions, BenignWindowsOracles)

NextOptions ==
  \/ \E p \in UserPaths : printOptions(p)
  \/ Settle

SpecOptions == InitOptions /\ [][NextOptions]_vars

----------------------------------------------------------------------------
(* printRaw calls of one Unix instance in flight at the same time: the      *)
(* caller starts a call without awaiting the one before.  A call runs to    *)
(* its next await in one step: printRaw writes the temp file and print      *)
(* validates it up to `await this.initialize()`; initialize settles and     *)
(* print starts lp; lp reads the file and exits; the finally of printRaw    *)
(* removes the file.                                                        *)

\* Date.now() does not go back
Times ==
  {n \in 0..MaxNow :
     \A c \in Calls : inflight[c].pc # "idle" => n >= inflight[c].now}

\* lp on a file that is not there
LpUnableToAccess ==
  [code |-> 1, stdout |-> <<>>,
   stderr |-> <<"lp: Error - unable to access file">>]

\* lp on a file that is there: the job is accepted, or lp fails
LpOnFile == {l \in LpOutcomes : l.stderr = <<>>}

\* printRaw up to the first await
RawStart(c, data, documentName, now, writeOk) ==
  /\ inflight[c].pc = "idle"
  /\ printer.impl = "unix"
  /\ now \in Times
  /\ LET tempFile == TempPath(DocumentName(documentName), now)
     IN IF writeOk
        THEN /\ fs' = [fs EXCEPT ![tempFile] = File(data)]
             /\ inflight' =
                  [inflight EXCEPT ![c] =
                     [NotStarted EXCEPT !.pc = "initialize", !.data = data,
                                        !.tempFile = tempFile,
                                        !.self = printer, !.now = now]]
        ELSE /\ fs' = IF existsSync(fs, tempFile)
                      THEN [fs EXCEPT ![tempFile] = Missing] ELSE fs
             /\ inflight' =
                  [inflight EXCEPT ![c] =
                     [NotStarted EXCEPT !.pc = "settled", !.data = data,
                                        !.tempFile = tempFile,
                                        !.status = "rejected", !.now = now]]
  /\ UNCHANGED <<platform, sys, printer, last>>

\* initialize settled as i: print rejects, or builds the command and runs lp
InitializedAs(c, i) ==
  /\ printer' = IF i.status = "resolved" THEN i.self ELSE printer
  /\ inflight' =
       [inflight EXCEPT ![c] =
          IF i.status = "rejected"
          THEN [@ EXCEPT !.pc = "finally", !.status = "rejected"]
          ELSE [@ EXCEPT !.pc = "lp",
                         !.command = PrintCommand(i, NoOptions,
                                                  inflight[c].tempFile)]]
  /\ UNCHANGED <<platform, sys, fs, last>>

RawInitialized(c) ==
  /\ inflight[c].pc = "initialize"
  /\ \E ok \in BOOLEAN :
       /\ inflight[c].self.initialized => ok
       /\ InitializedAs(c, initialize(inflight[c].self, sys,
                                      [ok1 |-> ok, ok2 |-> ok, ok3 |-> ok]))

\* lp read `printed` and the try/catch of print settled as r
LpRanAs(c, printed, r) ==
  /\ inflight' = [inflight EXCEPT ![c] = [@ EXCEPT !.pc = "finally",
                                                   !.printed = printed,
                                                   !.status = r.status]]
  /\ UNCHANGED <<platform, sys, fs, printer, last>>

\* the lp process reads the file of its command and exits
LpRun(c) ==
  /\ inflight[c].pc = "lp"
  /\ \E l \in LpOnFile :
       LpRanAs(c, <<fs[inflight[c].tempFile].data>>,
               SubmitFrom(execAsync(inflight[c].command,
                                    IF existsSync(fs, inflight[c].tempFile)
                                    THEN l ELSE LpUnableToAccess),
                          inflight[c].command))

\* the finally of printRaw
RawCleanup(c) ==
  /\ inflight[c].pc = "finally"
  /\ fs' = IF existsSync(fs, inflight[c].tempFile)
           THEN [fs EXCEPT ![inflight[c].tempFile] = Missing] ELSE fs
  /\ inflight' = [inflight EXCEPT ![c] = [@ EXCEPT !.pc = "settled"]]
  /\ UNCHANGED <<platform, sys, printer, last>>

\* the caller takes the outcome of the call
RawSettle(c) ==
  /\ inflight[c].pc = "settled"
  /\ inflight' = [inflight EXCEPT ![c] = NotStarted]
  /\ UNCHANGED <<platform, sys, fs, printer, last>>

InitConcurrent ==
  /\ platform \in {"linux", "darwin"}
  /\ sys = OptionsSystem
  /\ fs = InitFs
  /\ printer = UnixConstructor(<<>>).self
  /\ last = Idle
  /\ inflight = NoCalls

NextConcurrent ==
  \E c \in Calls :
     \/ \E d \in Buffers, n \in DocArgs, t \in 0..MaxNow, w \in BOOLEAN :
          RawStart(c, d, n, t, w)
     \/ RawInitialized(c)
     \/ LpRun(c)
     \/ RawCleanup(c)
     \/ RawSettle(c)

SpecConcurrent == InitConcurrent /\ [][NextConcurrent]_vars

----------------------------------------------------------------------------
(* Properties *)

FacadeOps ==
  {"new", "print", "printRaw", "getPrinterName", "getAvailablePrinters",
   "getDefaultPrinter", "printerExists"}

UnixApis    == {"exec", "writeFileSync", "unlinkSync"}
WindowsApis == {"OpenPrinterW", "readFileSync", "StartDocPrinterW",
                "GetLastError", "StartPagePrinter", "WritePrinter",
                "EndPagePrinter", "EndDocPrinter", "ClosePrinter"}
SpoolerCalls == {"StartDocPrinterW", "StartPagePrinter", "WritePrinter"}

Apis(trace) == {trace[i].api : i \in 1..Len(trace)}

Count(trace, api) == Cardinality({i \in 1..Len(trace) : trace[i].api = api})

\* C1: every call on the facade runs the Windows implementation, and only
\* Windows OS calls, when the platform is win32, and the Unix implementation,
\* and only Unix OS calls, on any other platform; the instance the facade
\* holds is of that implementation.
C1_PlatformDispatch ==
  /\ last.op \in FacadeOps =>
       IF platform = "win32"
       THEN last.impl = "windows" /\ Apis(last.trace) \subseteq WindowsApis
       ELSE last.impl = "unix" /\ Apis(last.trace) \subseteq UnixApis
  /\ printer.impl \in {"none", IF platform = "win32" THEN "windows" ELSE "unix"}

C1_Witness ==
  /\ platform = "darwin"
  /\ last.op = "print"
  /\ last.impl = "unix"
  /\ last.status = "resolved"
  /\ Count(last.trace, "exec") >= 2

ReachedLp ==
  /\ last.op = "print"
  /\ last.impl = "unix"
  /\ last.command # <<>>

HasOption(command, option) == Includes(command, <<"-o", " ", option>>)

SidesOptions ==
  {"sides=one-sided", "sides=two-sided-short-edge", "sides=two-sided-long-edge"}

\* C2: a Unix print that reaches lp has '-o sides=one-sided' in its command
\* exactly when duplex is 'simplex', '-o sides=two-sided-short-edge' exactly
\* when it is 'horizontal', '-o sides=two-sided-long-edge' exactly when it is
\* 'vertical', and no sides option when duplex is not given.
C2_UnixDuplex ==
  ReachedLp =>
    /\ HasOption(last.command, "sides=one-sided")
         <=> last.options.duplex = <<"simplex">>
    /\ HasOption(last.command, "sides=two-sided-short-edge")
         <=> last.options.duplex = <<"horizontal">>
    /\ HasOption(last.command, "sides=two-sided-long-edge")
         <=> last.options.duplex = <<"vertical">>
    /\ last.options.duplex = <<>> =>
         \A i \in 1..Len(last.command) : last.command[i] \notin SidesOptions

C2_Witness ==
  /\ ReachedLp
  /\ last.options.duplex = <<"vertical">>
  /\ last.options.copies = <<2>>
  /\ HasOption(last.command, "sides=two-sided-long-edge")

DevModeBuilt ==
  /\ last.op = "print"
  /\ last.impl = "windows"
  /\ Given(last.devMode)

HasBit(fields, bit) == BitAnd(fields, bit) = bit

\* C3: the DEVMODE built from the options has dmDuplex DUPLEX_SIMPLEX for
\* 'simplex', DUPLEX_HORIZONTAL for 'horizontal' and DUPLEX_VERTICAL for
\* 'vertical'; DM_DUPLEX is set in dmFields exactly when duplex is given; the
\* other bits and fields are those of the same options without duplex.
C3_WindowsDuplex ==
  DevModeBuilt =>
    LET dm   == last.devMode[1]
        o    == last.options
        base == createDevMode([o EXCEPT !.duplex = <<>>])
    IN /\ o.duplex = <<"simplex">> => dm.dmDuplex = <<DUPLEX_SIMPLEX>>
       /\ o.duplex = <<"horizontal">> => dm.dmDuplex = <<DUPLEX_HORIZONTAL>>
       /\ o.duplex = <<"vertical">> => dm.dmDuplex = <<DUPLEX_VERTICAL>>
       /\ HasBit(dm.dmFields, DM_DUPLEX) <=> Given(o.duplex)
       /\ dm.dmFields - BitAnd(dm.dmFields, DM_DUPLEX) = base.dmFields
       /\ [dm EXCEPT !.dmDuplex = <<>>, !.dmFields = base.dmFields] = base

C3_Witness ==
  /\ DevModeBuilt
  /\ last.options.duplex = <<"horizontal">>
  /\ last.options.color = <<FALSE>>
  /\ last.options.copies = <<2>>
  /\ last.devMode[1].dmDuplex = <<DUPLEX_HORIZONTAL>>
  /\ last.devMode[1].dmFields = DM_DUPLEX + DM_COLOR + DM_COPIES

\* C4: print of a path that is missing or is not a regular file rejects, and
\* the call makes no OS call (no lpstat, no lp, no printer opened, no document
\* started) and leaves the instance as it was, uninitialised if it was.
C4_FileNotFound ==
  (last.op = "print" /\ fs[last.path].kind # "file") =>
    /\ last.status = "rejected"
    /\ last.message # <<>>
    /\ last.trace = <<>>
    /\ last.command = <<>>
    /\ printer = last.before

C4_Witness ==
  /\ last.op = "print"
  /\ last.impl = "unix"
  /\ fs[last.path].kind = "dir"
  /\ last.status = "rejected"
  /\ ~printer.initialized
  /\ Given(printer.printerName)

NotAmongPrinters(s, printerName) ==
  /\ Given(printerName)
  /\ \A i \in 1..Len(s.printers) :
       LowerText(<<s.printers[i]>>) # LowerText(printerName)

\* C5: creating a PDFPrinter for a name that is not among the system's
\* printers fails with 'Printer not found': the constructor throws on Windows,
\* PDFPrinter.create(name) rejects on Unix.
C5_PrinterNotFoundAtCreation ==
  /\ (platform = "win32" /\ last.op = "new"
        /\ NotAmongPrinters(sys, last.name)) =>
       (last.status = "threw" /\ Includes(last.message, <<"Printer not found">>))
  /\ (platform # "win32" /\ last.op = "create"
        /\ NotAmongPrinters(sys, last.name)) =>
       (last.status = "rejected"
          /\ Includes(last.message, <<"Printer not found">>))

SpoolerCallFailed ==
  /\ last.op \in {"print", "printRaw"}
  /\ last.impl = "windows"
  /\ \E i \in 1..Len(last.trace) :
       last.trace[i].api \in SpoolerCalls /\ ~last.trace[i].ok

\* C6: when a Windows print or printRaw fails because StartDocPrinterW,
\* StartPagePrinter or WritePrinter reported failure, the error carries the
\* platform's last-error code.
C6_SpoolerErrorCarriesCode ==
  SpoolerCallFailed =>
    /\ last.status = "rejected"
    /\ Includes(last.message, <<ToString(last.lastError)>>)

LpRan ==
  /\ last.op \in {"print", "printRaw"}
  /\ last.impl = "unix"
  /\ last.command # <<>>

LpFailed ==
  \/ last.lp.code # 0
  \/ Given(last.lp.stderr) /\ ~Includes(last.lp.stderr, <<"request id">>)

\* C7: when lp exits with an error, or writes stderr without 'request id',
\* print rejects and the message contains that stderr; print resolves only
\* when lp exited with code 0 and stderr is empty or contains 'request id'.
C7_LpFailureCarriesStderr ==
  LpRan =>
    /\ LpFailed => (last.status = "rejected"
                      /\ Includes(last.message, <<"Failed to print">>)
                      /\ Includes(last.message, last.lp.stderr))
    /\ last.status = "resolved" =>
         (last.lp.code = 0
            /\ (last.lp.stderr = <<>>
                  \/ Includes(last.lp.stderr, <<"request id">>)))

C7_Witness ==
  /\ LpRan
  /\ last.lp.code = 0
  /\ last.lp.stderr = <<"lp: warning">>
  /\ last.status = "rejected"

LpRuns(trace) ==
  Cardinality({i \in 1..Len(trace) :
                 trace[i].api = "exec" /\ trace[i].arg[1] = "lp"})

\* C8: a print or printRaw runs lp at most once on Unix and calls
\* StartDocPrinterW, StartPagePrinter and WritePrinter at most once each on
\* Windows; when that one attempt fails the call is rejected.
C8_NoRetry ==
  last.op \in {"print", "printRaw"} =>
    /\ LpRuns(last.trace) <= 1
    /\ \A api \in SpoolerCalls : Count(last.trace, api) <= 1
    /\ (\E i \in 1..Len(last.trace) :
          /\ last.trace[i].api \in SpoolerCalls
               \/ (last.trace[i].api = "exec" /\ last.trace[i].arg[1] = "lp")
          /\ ~last.trace[i].ok) => last.status = "rejected"
    /\ (LpRuns(last.trace) = 1 /\ LpFailed) => last.status = "rejected"

C8_Witness ==
  /\ last.op = "printRaw"
  /\ last.impl = "unix"
  /\ LpRuns(last.trace) = 1
  /\ last.lp.code # 0
  /\ last.status = "rejected"

\* C9 as stated: constructing the facade without a printer name yields an
\* instance without throwing, on every platform and whatever the printers.
C9_ConstructWithoutNameNeverThrows ==
  (last.op = "new" /\ last.name = <<>>) =>
    (last.status = "returned" /\ printer.impl # "none")

\* C9 amended: constructing the facade without a printer name yields an
\* instance on Unix whatever the printers, and on Windows when the system
\* reports a default printer or at least one printer; on Windows with no
\* default printer and no printer the constructor throws 'No printers found
\* on this system'.
C9_ConstructWithoutName ==
  (last.op = "new" /\ last.name = <<>>) =>
    IF platform = "win32" /\ sys.default = Null /\ Len(sys.printers) = 0
    THEN /\ last.status = "threw"
         /\ last.message = <<"No printers found on this system">>
         /\ printer = last.before
    ELSE /\ last.status = "returned"
         /\ printer.impl # "none"

C9_Witness ==
  /\ last.op = "new"
  /\ last.name = <<>>
  /\ platform = "win32"
  /\ sys.default = Null
  /\ Len(sys.printers) > 0
  /\ last.status = "returned"
  /\ printer.printerName = <<sys.printers[1]>>

ManagerOps == {"getAvailablePrinters", "getDefaultPrinter", "printerExists"}

\* C10: getAvailablePrinters, getDefaultPrinter and printerExists of
\* UnixPrinterManager never reject; when lpstat fails they give the empty
\* list, null and false.
C10_GracefulDegradation ==
  (last.op \in ManagerOps /\ last.impl = "unix") =>
    /\ last.status = "resolved"
    /\ ~last.trace[1].ok =>
         /\ last.op = "getAvailablePrinters" => last.printers = <<>>
         /\ last.op = "getDefaultPrinter" => last.name = Null
         /\ last.op = "printerExists" => ~last.exists

C10_Witness ==
  /\ last.op = "printerExists"
  /\ last.impl = "unix"
  /\ last.name = <<"A">>
  /\ "A" \in Range(sys.printers)
  /\ ~last.trace[1].ok
  /\ ~last.exists
  /\ last.status = "resolved"

\* the words /bin/sh makes of an unquoted command line: it splits at blanks
FirstBlank(t) ==
  IF \E i \in 1..Len(t) : t[i] = " "
  THEN CHOOSE i \in 1..Len(t) : t[i] = " " /\ \A k \in 1..(i - 1) : t[k] # " "
  ELSE Len(t) + 1

RECURSIVE Words(_)
Words(t) ==
  IF t = <<>> THEN <<>>
  ELSE IF FirstBlank(t) = 1 THEN Words(Tail(t))
  ELSE <<SubSeq(t, 1, FirstBlank(t) - 1)>>
       \o Words(SubSeq(t, FirstBlank(t) + 1, Len(t)))

\* the pieces an argument of the form <option>=<value> starts with
AssignmentHeads ==
  {"sides=one-sided", "sides=two-sided-short-edge", "sides=two-sided-long-edge",
   "media=", "orientation-requested=", "print-color-mode="}

CopiesAbove1(options) ==
  Given(options.copies) /\ options.copies[1] > 1

\* C11: every command print runs is 'lp -d <printer> [-n <copies>]
\* {-o <option>=<value>} <file>': the first words are lp, -d and the
\* destination, the last word is the file path, '-n <copies>' follows the
\* destination exactly when copies is greater than 1, and every word after a
\* '-o' is of the form <option>=<value>.
C11_LpCommandShape ==
  ReachedLp =>
    LET w == Words(last.command)
        n == Len(w)
    IN /\ n >= 4
       /\ w[1] = <<"lp">>
       /\ w[2] = <<"-d">>
       /\ w[3] = (IF Given(last.options.printer) THEN last.options.printer
                  ELSE printer.printerName)
       /\ w[n] = last.path
       /\ (\E i \in 1..n : w[i] = <<"-n">>) <=> CopiesAbove1(last.options)
       /\ CopiesAbove1(last.options) =>
            (w[4] = <<"-n">> /\ w[5] = <<ToString(last.options.copies[1])>>)
       /\ \A i \in 1..(n - 1) :
            w[i] = <<"-o">> => w[i + 1][1] \in AssignmentHeads

WindowsCall ==
  /\ last.op \in {"print", "printRaw"}
  /\ last.impl = "windows"

\* the calls made on the printer handle
HandleCalls ==
  {"StartDocPrinterW", "StartPagePrinter", "WritePrinter", "EndPagePrinter",
   "EndDocPrinter", "ClosePrinter"}

Opened(trace) ==
  {i \in 1..Len(trace) : trace[i].api = "OpenPrinterW" /\ trace[i].ok}

\* C12: in every Windows print and printRaw, on every path, the handle that
\* openPrinter returned is closed exactly once before the call settles (and
\* nothing is closed when openPrinter failed), every call on the handle is
\* made after it was opened, and no call is made on it after it was closed.
C12_HandleRelease ==
  WindowsCall =>
    LET t == last.trace
    IN /\ Count(t, "ClosePrinter") = Cardinality(Opened(t))
       /\ Cardinality(Opened(t)) <= 1
       /\ \A i \in 1..Len(t) :
            t[i].api \in HandleCalls => \E k \in Opened(t) : k < i
       /\ \A i \in 1..Len(t) :
            t[i].api = "ClosePrinter" =>
              \A k \in (i + 1)..Len(t) : t[k].api \notin HandleCalls

\* a failed WritePrinter, and the handle closed after EndDocPrinter
C12_Witness ==
  /\ WindowsCall
  /\ last.status = "rejected"
  /\ \E i \in 1..Len(last.trace) :
       last.trace[i].api = "WritePrinter" /\ ~last.trace[i].ok
  /\ last.trace[Len(last.trace)].api = "ClosePrinter"
  /\ last.trace[Len(last.trace) - 1].api = "EndDocPrinter"

\* the place of a spooler call in a job
Rank(api) ==
  CASE api = "OpenPrinterW"     -> 1
    [] api = "StartDocPrinterW" -> 2
    [] api = "StartPagePrinter" -> 3
    [] api = "WritePrinter"     -> 4
    [] api = "EndPagePrinter"   -> 5
    [] api = "EndDocPrinter"    -> 6
    [] api = "ClosePrinter"     -> 7
    [] OTHER                    -> 0

Succeeded(trace, api) ==
  \E i \in 1..Len(trace) : trace[i].api = api /\ trace[i].ok

\* C13: the spooler calls of one Windows print or printRaw occur in the order
\* OpenPrinter, StartDocPrinterW, StartPagePrinter, WritePrinter,
\* EndPagePrinter, EndDocPrinter, ClosePrinter, each at most once;
\* EndDocPrinter is called once if StartDocPrinterW succeeded and never
\* otherwise, EndPagePrinter once if StartPagePrinter succeeded and never
\* otherwise, and WritePrinter only after a successful StartPagePrinter.
C13_SpoolerCallOrder ==
  WindowsCall =>
    LET t == last.trace
    IN /\ \A i \in 1..Len(t) : \A k \in (i + 1)..Len(t) :
            (Rank(t[i].api) # 0 /\ Rank(t[k].api) # 0) =>
              Rank(t[i].api) < Rank(t[k].api)
       /\ Count(t, "EndDocPrinter")
            = (IF Succeeded(t, "StartDocPrinterW") THEN 1 ELSE 0)
       /\ Count(t, "EndPagePrinter")
            = (IF Succeeded(t, "StartPagePrinter") THEN 1 ELSE 0)
       /\ \A i \in 1..Len(t) :
            t[i].api = "WritePrinter" =>
              \E k \in 1..(i - 1) : t[k].api = "StartPagePrinter" /\ t[k].ok

\* StartPagePrinter failed: the document is ended, no page is
C13_Witness ==
  /\ WindowsCall
  /\ last.op = "printRaw"
  /\ Succeeded(last.trace, "StartDocPrinterW")
  /\ Count(last.trace, "StartPagePrinter") = 1
  /\ ~Succeeded(last.trace, "StartPagePrinter")
  /\ Count(last.trace, "EndDocPrinter") = 1
  /\ Count(last.trace, "EndPagePrinter") = 0
  /\ Count(last.trace, "WritePrinter") = 0

IsLpstat(e) == e.api = "exec" /\ e.arg[1] = "lpstat"

Lpstats(trace) == SelectSeq(trace, IsLpstat)

\* a Unix print or printRaw of an instance made without a name that gets as
\* far as initialize
UnixFirstPrintWithoutName ==
  /\ last.op \in {"print", "printRaw"}
  /\ last.impl = "unix"
  /\ last.before.printerName = <<>>
  /\ ~last.before.initialized
  /\ Lpstats(last.trace) # <<>>

\* the printers lpstat -p reported to the call, none when it failed
ReportedPrinters ==
  IF Len(Lpstats(last.trace)) >= 2 /\ Lpstats(last.trace)[2].ok
  THEN sys.printers ELSE <<>>

\* the default printer lpstat -d reported to the call, none when it failed
ReportedDefault ==
  IF Lpstats(last.trace)[1].ok THEN sys.default ELSE Null

Destination(command) == Words(command)[3]

\* C14: without a printer name the printer used is the default printer the
\* system reports, else the first of the printers it reports, and with no
\* printer reported the operation fails with 'No printers found on this
\* system' and submits no job: on Unix at the first print, where the printer
\* is the destination of lp and the name the instance keeps, on Windows at
\* construction, the printer being the one later opened.
C14_DefaultPrinterFallback ==
  /\ UnixFirstPrintWithoutName =>
       IF Given(ReportedDefault)
       THEN /\ printer.printerName = ReportedDefault
            /\ last.command # <<>>
            /\ ~Given(last.options.printer) =>
                 Destination(last.command) = ReportedDefault
       ELSE IF ReportedPrinters # <<>>
       THEN /\ printer.printerName = <<ReportedPrinters[1]>>
            /\ last.command # <<>>
            /\ ~Given(last.options.printer) =>
                 Destination(last.command) = <<ReportedPrinters[1]>>
       ELSE /\ last.status = "rejected"
            /\ last.message = <<"No printers found on this system">>
            /\ LpRuns(last.trace) = 0
            /\ last.command = <<>>
            /\ printer = last.before
  /\ (last.op = "new" /\ last.impl = "windows" /\ ~Given(last.name)) =>
       IF Given(sys.default)
       THEN last.status = "returned" /\ printer.printerName = sys.default
       ELSE IF sys.printers # <<>>
       THEN last.status = "returned"
              /\ printer.printerName = <<sys.printers[1]>>
       ELSE /\ last.status = "threw"
            /\ last.message = <<"No printers found on this system">>
            /\ printer = last.before
  /\ (WindowsCall /\ ~Given(last.options.printer) /\ last.trace # <<>>) =>
       /\ last.trace[1].api = "OpenPrinterW"
       /\ last.trace[1].arg = printer.printerName

\* no default reported although the system has one, two printers: the first
\* is the destination
C14_Witness ==
  /\ UnixFirstPrintWithoutName
  /\ last.op = "print"
  /\ sys.printers = <<"B", "A">>
  /\ sys.default = <<"A">>
  /\ ~Lpstats(last.trace)[1].ok
  /\ last.status = "resolved"
  /\ ~Given(last.options.printer)
  /\ Destination(last.command) = <<"B">>
  /\ printer.printerName = <<"B">>

UnixRaw ==
  /\ last.op = "printRaw"
  /\ last.impl = "unix"

InitializeFailures ==
  {<<"No printers found on this system">>,
   <<"Printer not found", ": ">> \o last.before.printerName}

\* C15: when a Unix printRaw has settled, the temp file it wrote under /tmp
\* does not exist, whether print resolved or failed (printer not found, no
\* printers, lp failure); the file was removed after everything print did;
\* and the call rejects with the failure of print: it resolves only when lp
\* ran and did not fail.
C15_TempFileCleanup ==
  UnixRaw =>
    LET t == last.trace
    IN /\ last.path[1] = "/tmp/"
       /\ fs[last.path].kind = "missing"
       /\ t[1].api = "writeFileSync" /\ t[1].arg = last.path
       /\ t[1].ok =>
            /\ t[Len(t)] = Ev("unlinkSync", last.path, TRUE)
            /\ Count(t, "unlinkSync") = 1
       /\ (t[1].ok /\ last.command = <<>>) =>
            (last.status = "rejected" /\ last.message \in InitializeFailures)
       /\ (last.command # <<>> /\ LpFailed) =>
            (last.status = "rejected"
               /\ Includes(last.message, <<"Failed to print">>))
       /\ last.status = "resolved" =>
            (t[1].ok /\ LpRuns(t) = 1 /\ ~LpFailed)

\* the printer of the instance does not exist: print rejects, the file is gone
C15_Witness ==
  /\ UnixRaw
  /\ last.trace[1].ok
  /\ last.status = "rejected"
  /\ last.message = <<"Printer not found", ": ", "Z">>
  /\ last.trace[Len(last.trace)].api = "unlinkSync"
  /\ fs[last.path].kind = "missing"

\* the words w of a command have the option -o arg
HasOptionArg(w, arg) ==
  \E i \in 1..(Len(w) - 1) : w[i] = <<"-o">> /\ w[i + 1] = arg

\* the number of -o arguments among the words w that start with head
OptionCount(w, head) ==
  Cardinality({i \in 2..Len(w) : w[i - 1] = <<"-o">> /\ w[i][1] = head})

\* C16: a Unix print that reaches lp has '-o media=<paperSize>' exactly when
\* paperSize is given, '-o orientation-requested=4' exactly when orientation
\* is 'landscape' and '=3' exactly when it is 'portrait', '-o
\* print-color-mode=color' exactly when color is true and '=monochrome'
\* exactly when it is false, none of them when the option is undefined, and
\* '-o fit-to-page' exactly when fitToPage is true.
C16_UnixOtherOptions ==
  ReachedLp =>
    LET c == Words(last.command)
        o == last.options
    IN /\ HasOptionArg(c, <<"media=">> \o o.paperSize) <=> Given(o.paperSize)
       /\ OptionCount(c, "media=") = (IF Given(o.paperSize) THEN 1 ELSE 0)
       /\ HasOptionArg(c, <<"orientation-requested=", "4">>)
            <=> o.orientation = <<"landscape">>
       /\ HasOptionArg(c, <<"orientation-requested=", "3">>)
            <=> o.orientation = <<"portrait">>
       /\ OptionCount(c, "orientation-requested=")
            = (IF Given(o.orientation) THEN 1 ELSE 0)
       /\ HasOptionArg(c, <<"print-color-mode=", "color">>)
            <=> o.color = <<TRUE>>
       /\ HasOptionArg(c, <<"print-color-mode=", "monochrome">>)
            <=> o.color = <<FALSE>>
       /\ OptionCount(c, "print-color-mode=") = (IF Given(o.color) THEN 1 ELSE 0)
       /\ HasOptionArg(c, <<"fit-to-page">>) <=> o.fitToPage = <<TRUE>>

C16_Witness ==
  /\ ReachedLp
  /\ last.options.paperSize = <<"a4">>
  /\ last.options.orientation = <<"landscape">>
  /\ last.options.color = <<FALSE>>
  /\ last.options.fitToPage = <<TRUE>>
  /\ LET w == Words(last.command)
     IN /\ HasOptionArg(w, <<"media=", "a4">>)
        /\ HasOptionArg(w, <<"orientation-requested=", "4">>)
        /\ HasOptionArg(w, <<"print-color-mode=", "monochrome">>)
        /\ HasOptionArg(w, <<"fit-to-page">>)

\* the options of the call without its print settings
WithoutSettings(options) == [NoOptions EXCEPT !.printer = options.printer]

\* the OS calls of the call that ended, made with other options
SameCallWith(options, o) ==
  IF last.op = "print"
  THEN Windows_print(printer, fs, last.path, options, o).trace
  ELSE Windows_printRaw(printer, last.data, last.name, options, o).trace

\* C17: on Windows the DEVMODE built from the options of print or printRaw
\* goes to the spooler with the job: a call that starts a job with settings
\* in its options passes to the OS something a call that differs from it
\* only in having no settings does not pass.
C17_OptionsTakeEffectOnWindows ==
  (WindowsCall
     /\ Succeeded(last.trace, "StartDocPrinterW")
     /\ createDevMode(last.options) # EmptyDevMode) =>
    \A o \in WindowsOracles :
       SameCallWith(WithoutSettings(last.options), o) # last.trace

\* C18: whatever the interleaving of the printRaw calls in flight, calls with
\* the same documentName started in the same millisecond included, the temp
\* file of a call holds the data of that call from the moment the call wrote
\* it until its lp has run (no other call removes or overwrites it), and what
\* the lp of a call read is the data passed to that call.
C18_ConcurrentRawIsolation ==
  \A c \in Calls :
     /\ inflight[c].pc \in {"initialize", "lp"} =>
          fs[inflight[c].tempFile] = File(inflight[c].data)
     /\ inflight[c].printed # <<>> =>
          inflight[c].printed = <<inflight[c].data>>

====
